---- MODULE Spec2Model ----
(***************************************************************************)
(* Model of backend/main.py of the Colombo AQI predictor: the three        *)
(* artifacts loaded at import time (df, pipe, encoders), the four HTTP     *)
(* handlers (root, get_locations, get_location_coords, predict) and the    *)
(* helpers aqi_category and advice_for.                                    *)
(*                                                                         *)
(* predict runs in a worker thread (a "def" endpoint), so it is split into *)
(* the steps of its body; the other handlers are one step each.            *)
(*                                                                         *)
(* Numbers: an AQI value is an integer count of thousandths (50.004 is     *)
(* 50004); predicted_aqi, rounded to 2 places, is a count of hundredths.   *)
(* Cell values of the table are tagged records (Num / Txt), so that str()  *)
(* of a cell is a real conversion.                                         *)
(***************************************************************************)
EXTENDS Integers, Sequences, FiniteSets, TLC

VARIABLES
    df,         \* the Reference Dataset (main.py:24), or None
    pipe,       \* the trained pipeline (main.py:30), or None
    encoders,   \* the label encoders (main.py:35-43), or None
    pc,         \* pc[i]: where request i is in its handler
    req,        \* req[i]: the request (endpoint and PredictRequest body)
    base_row,   \* base_row[i]: predict's local dict (main.py:166-178)
    X,          \* X[i]: predict's local one-row frame (main.py:182-195)
    todo,       \* todo[i]: encoder columns the loop of main.py:185 has left
    touched,    \* touched[i]: what request i has read so far, in order
    resp,       \* resp[i]: the HTTP response of request i
    probe       \* the classifier's input and output (SpecClassifier only)

vars == <<df, pipe, encoders, pc, req, base_row, X, todo, touched, resp, probe>>

artifacts == <<df, pipe, encoders>>

----------------------------------------------------------------------------
(* Bounds *)

\* concurrent requests in flight
MaxRequests == 2

\* half-width, in thousandths, of the window of AQI values tried around
\* each threshold
Window == 12

----------------------------------------------------------------------------
(* Values *)

None == [none |-> TRUE]

Milli == 10 * 10 * 10

Num(n) == [t |-> "num", s |-> "", n |-> n]

Txt(s) == [t |-> "str", s |-> s, n |-> 0]

NaN == [t |-> "nan", s |-> "", n |-> 0]

Digit(d) == <<"0", "1", "2", "3", "4", "5", "6", "7", "8", "9">>[d + 1]

RECURSIVE NatStr(_)
NatStr(n) == IF n < 10 THEN Digit(n) ELSE NatStr(n \div 10) \o Digit(n % 10)

\* Python's str() of a cell value
Str(v) ==
    CASE v.t = "str" -> v.s
      [] v.t = "nan" -> "nan"
      [] OTHER -> IF v.n < 0 THEN "-" \o NatStr(-v.n) ELSE NatStr(v.n)

\* first position of x in sequence s, 0 when absent
IndexOf(s, x) ==
    IF \E k \in 1..Len(s) : s[k] = x
    THEN CHOOSE k \in 1..Len(s) : s[k] = x /\ \A m \in 1..(k - 1) : s[m] # x
    ELSE 0

Range(s) == {s[k] : k \in 1..Len(s)}

----------------------------------------------------------------------------
(* datetime.strptime(req.date, "%Y-%m-%d") and dt.strftime("%A")          *)
(* A date string is a sequence of one-character strings.                   *)

DigitChars == {"0", "1", "2", "3", "4", "5", "6", "7", "8", "9"}

DigitVal(c) == CHOOSE d \in 0..9 : Digit(d) = c

AllDigits(f) == \A k \in 1..Len(f) : f[k] \in DigitChars

RECURSIVE FieldVal(_)
FieldVal(f) ==
    IF f = << >> THEN 0
    ELSE 10 * FieldVal(SubSeq(f, 1, Len(f) - 1)) + DigitVal(f[Len(f)])

\* the fields of s between the "-" separators
RECURSIVE SplitDash(_)
SplitDash(s) ==
    IF \A k \in 1..Len(s) : s[k] # "-" THEN <<s>>
    ELSE LET k == CHOOSE j \in 1..Len(s) :
                      s[j] = "-" /\ \A m \in 1..(j - 1) : s[m] # "-"
         IN <<SubSeq(s, 1, k - 1)>> \o SplitDash(SubSeq(s, k + 1, Len(s)))

IsLeap(y) == (y % 4 = 0) /\ ((y % 100 # 0) \/ (y % 400 = 0))

DaysInMonth(y, m) ==
    IF m = 2 THEN (IF IsLeap(y) THEN 29 ELSE 28)
    ELSE IF m \in {4, 6, 9, 11} THEN 30 ELSE 31

\* %Y is \d\d\d\d; %m is 1[0-2]|0[1-9]|[1-9]; %d is 3[01]|[12]\d|0[1-9]|[1-9]| [1-9]
YearField(f) == Len(f) = 4 /\ AllDigits(f)

MonthField(f) == Len(f) \in {1, 2} /\ AllDigits(f) /\ FieldVal(f) \in 1..12

DayField(f) ==
    \/ Len(f) \in {1, 2} /\ AllDigits(f) /\ FieldVal(f) \in 1..31
    \/ Len(f) = 2 /\ f[1] = " " /\ f[2] \in (DigitChars \ {"0"})

DayVal(f) == IF f[1] = " " THEN DigitVal(f[2]) ELSE FieldVal(f)

\* the string matches the format and names a day of the calendar
\* (otherwise strptime raises ValueError)
DateParses(s) ==
    LET f == SplitDash(s) IN
    /\ Len(f) = 3
    /\ YearField(f[1]) /\ MonthField(f[2]) /\ DayField(f[3])
    /\ FieldVal(f[1]) >= 1
    /\ DayVal(f[3]) <= DaysInMonth(FieldVal(f[1]), FieldVal(f[2]))

strptime(s) ==
    LET f == SplitDash(s) IN
    [year |-> FieldVal(f[1]), month |-> FieldVal(f[2]), day |-> DayVal(f[3])]

RECURSIVE DaysBeforeMonth(_, _)
DaysBeforeMonth(y, m) ==
    IF m = 1 THEN 0 ELSE DaysBeforeMonth(y, m - 1) + DaysInMonth(y, m - 1)

\* date.toordinal(): 0001-01-01 is day 1
ToOrdinal(dt) ==
    LET y == dt.year - 1 IN
    y * 365 + (y \div 4) - (y \div 100) + (y \div 400)
      + DaysBeforeMonth(dt.year, dt.month) + dt.day

WeekdayNames ==
    <<"Monday", "Tuesday", "Wednesday", "Thursday", "Friday", "Saturday", "Sunday">>

\* dt.strftime("%A")
strftimeA(dt) == WeekdayNames[((ToOrdinal(dt) + 6) % 7) + 1]

----------------------------------------------------------------------------
(* Helpers (main.py:106-123) *)

\* the thresholds as exclusive upper bounds
aqi_category_Exclusive(aqi) ==
    IF aqi < 50 * Milli THEN "Good"
    ELSE IF aqi < 100 * Milli THEN "Moderate"
    ELSE IF aqi < 150 * Milli THEN "Unhealthy for Sensitive Groups"
    ELSE IF aqi < 200 * Milli THEN "Unhealthy"
    ELSE IF aqi < 300 * Milli THEN "Very Unhealthy"
    ELSE "Hazardous"

aqi_category(aqi) ==
    IF aqi <= 50 * Milli THEN "Good"
    ELSE IF aqi <= 100 * Milli THEN "Moderate"
    ELSE IF aqi <= 150 * Milli THEN "Unhealthy for Sensitive Groups"
    ELSE IF aqi <= 200 * Milli THEN "Unhealthy"
    ELSE IF aqi <= 300 * Milli THEN "Very Unhealthy"
    ELSE "Hazardous"

advice_for(aqi) ==
    IF aqi <= 100 * Milli THEN <<"Outdoor activities are generally safe.">>
    ELSE IF aqi <= 150 * Milli
        THEN <<"Sensitive groups should reduce long outdoor exposure.">>
    ELSE IF aqi <= 200 * Milli
        THEN <<"Wear a mask outdoors.", "Reduce outdoor activities.">>
    ELSE IF aqi <= 300 * Milli
        THEN <<"Avoid outdoor activities.", "Wear N95 if you must go out.">>
    ELSE <<"Hazardous: Stay indoors.", "Avoid outdoor activities completely.">>

\* round(pred, 2): thousandths to the nearest hundredth. A tie is decided on
\* the exact binary value, so it arises only for a value a float holds
\* exactly (x.125, x.375, ...), and then goes to the even neighbour.
round2(pred) ==
    LET q == pred \div 10
        r == pred % 10
    IN IF r < 5 THEN q
       ELSE IF r > 5 THEN q + 1
       ELSE IF q % 2 = 0 THEN q ELSE q + 1

\* the dict returned at main.py:200-205
PredictBody(location, pred) ==
    [selected_location |-> location,
     predicted_aqi |-> round2(pred),
     category |-> aqi_category(pred),
     advice |-> advice_for(pred)]

----------------------------------------------------------------------------
(* The table: columns in file order, rows in file order *)

TargetCol == "AQI_US"

\* Python's order of the strings the model uses (sorted(), mode()'s ties)
Lexicon ==
    <<"Atlantis", "Cloudy", "Colombo City", "Friday", "Kandy", "Malabe",
      "Monday", "Nugegoda", "Rainy", "Saturday", "Sunday", "Sunny", "Thursday", "Tuesday",
      "Wednesday">>

Less(a, b) ==
    IF a.t = "num" /\ b.t = "num" THEN a.n < b.n
    ELSE IndexOf(Lexicon, Str(a)) < IndexOf(Lexicon, Str(b))

\* the set as a sequence in increasing order
RECURSIVE Sorted(_)
Sorted(S) ==
    IF S = {} THEN << >>
    ELSE LET m == CHOOSE a \in S : \A b \in S \ {a} : Less(a, b)
         IN <<m>> \o Sorted(S \ {m})

Column(d, col) == [k \in 1..Len(d.rows) |-> d.rows[k][col]]

\* df[col].mode().iloc[0]: the most frequent value, the smallest on a tie
Mode(d, col) ==
    LET c == Column(d, col)
        Count(v) == Cardinality({k \in 1..Len(c) : c[k] = v})
        Top == {v \in Range(c) : \A w \in Range(c) : Count(w) <= Count(v)}
    IN Sorted(Top)[1]

\* the location looked up in LOCATION_COORDS instead of in the table
LocationKnown_Coords(d, location) ==
    location \in {"Colombo City", "Malabe", "Nugegoda"}

\* req.location in df["Location"].values
LocationKnown(d, location) ==
    \E k \in 1..Len(d.rows) : d.rows[k]["Location"] = Txt(location)

\* df[df["Location"] == req.location] is empty: .iloc[0] raises IndexError
NoRecord(d, location) ==
    \A k \in 1..Len(d.rows) : d.rows[k]["Location"] # Txt(location)

\* df[df["Location"] == req.location].iloc[0].to_dict()
FirstRecord(d, location) ==
    LET k == CHOOSE j \in 1..Len(d.rows) :
                 /\ d.rows[j]["Location"] = Txt(location)
                 /\ \A m \in 1..(j - 1) : d.rows[m]["Location"] # Txt(location)
    IN [cols |-> d.columns, val |-> d.rows[k]]

\* [c for c in df.columns if c != "AQI_US"]
FeatureCols(d) == SelectSeq(d.columns, LAMBDA c : c # TargetCol)

\* base_row[key] = value: a dict keeps the place of a key it has and puts a
\* new key last
DictSet(row, key, value) ==
    IF key \in Range(row.cols)
    THEN [row EXCEPT !.val[key] = value]
    ELSE [cols |-> Append(row.cols, key),
          val |-> [c \in Range(row.cols) \cup {key} |->
                       IF c = key THEN value ELSE row.val[c]]]

\* base_row.pop(key, None)
DictPop(row, key) ==
    IF key \in Range(row.cols)
    THEN [cols |-> SelectSeq(row.cols, LAMBDA c : c # key),
          val |-> [c \in Range(row.cols) \ {key} |-> row.val[c]]]
    ELSE row

\* main.py:169-178
Override(row, r) ==
    LET dt == strptime(r.date)
        r1 == DictSet(row, "Year", Num(dt.year))
        r2 == DictSet(r1, "Month", Num(dt.month))
        r3 == DictSet(r2, "Day", Num(dt.day))
        r4 == DictSet(r3, "Hour", Num(r.hour))
        r5 == DictSet(r4, "Location", Txt(r.location))
        r6 == DictSet(r5, "Day_of_Week", Txt(strftimeA(dt)))
    IN DictPop(r6, TargetCol)

\* the frame built from the dict as it is, without the reindex
Reindex_Skipped(row, columns) == row

\* pd.DataFrame([base_row]).reindex(columns=feature_cols): exactly the
\* columns asked for, NaN where the row has none
Reindex(row, columns) ==
    [cols |-> columns,
     val |-> [c \in Range(columns) |->
                  IF c \in Range(row.cols) THEN row.val[c] ELSE NaN]]

\* the hour check without its lower bound
HourInRange_NoLower(hour) == hour <= 23

\* 0 <= req.hour <= 23
HourInRange(hour) == 0 <= hour /\ hour <= 23

\* the value the encoder is asked to transform for column col (main.py:187-193)
EncodeInput(d, le, frame, col) ==
    LET val == Str(frame.val[col])
    IN IF val \notin Range(le) THEN Str(Mode(d, col)) ELSE val

\* le.transform([val]) raises ValueError on a label outside classes_
TransformRaises(le, val) == val \notin Range(le)

\* le.transform([val])[0]: the position of val in the sorted classes_
Transform(le, val) == IndexOf(le, val) - 1

\* X[col] = le.transform([val])
EncodeColumn(d, le, frame, col) ==
    [frame EXCEPT !.val[col] = Num(Transform(le, EncodeInput(d, le, frame, col)))]

----------------------------------------------------------------------------
(* The pipeline: an opaque, pure function of the numeric row. Its outputs  *)
(* are drawn from PredSamples, which sit on and beside the thresholds.     *)

PredSamples ==
    <<62 * Milli + 130, 50 * Milli + 4, 100 * Milli, 150 * Milli + 10,
      50 * Milli, 100 * Milli + 4, 49 * Milli + 996, 300 * Milli + 10,
      200 * Milli, 0 - 5 * Milli, 301 * Milli + 125>>

RECURSIVE SumCells(_, _)
SumCells(frame, k) ==
    IF k = 0 THEN 0 ELSE SumCells(frame, k - 1) + frame.val[frame.cols[k]].n * k

\* pipe.predict(X) raises on a cell that is not a number
PredictRaises(frame) == \E c \in Range(frame.cols) : frame.val[c].t # "num"

\* float(pipe.predict(X)[0])
Predict(p, frame) ==
    PredSamples[((p.bias + p.step * SumCells(frame, Len(frame.cols)))
                    % Len(PredSamples)) + 1]

----------------------------------------------------------------------------
(* Artifact snapshots the service is started on *)

Row9(loc, y, m, d, h, dow, w, temp, aqi) ==
    [c \in {"Location", "Year", "Month", "Day", "Hour", "Day_of_Week",
            "Weather", "Temp", "AQI_US"} |->
        CASE c = "Location" -> Txt(loc)
          [] c = "Year" -> Num(y)
          [] c = "Month" -> Num(m)
          [] c = "Day" -> Num(d)
          [] c = "Hour" -> Num(h)
          [] c = "Day_of_Week" -> Txt(dow)
          [] c = "Weather" -> Txt(w)
          [] c = "Temp" -> Num(temp)
          [] OTHER -> Num(aqi)]

Row8(loc, aqi, h, w, y, m, d, temp) ==
    [c \in {"Location", "AQI_US", "Hour", "Weather", "Year", "Month", "Day",
            "Temp"} |->
        CASE c = "Location" -> Txt(loc)
          [] c = "AQI_US" -> Num(aqi)
          [] c = "Hour" -> Num(h)
          [] c = "Weather" -> Txt(w)
          [] c = "Year" -> Num(y)
          [] c = "Month" -> Num(m)
          [] c = "Day" -> Num(d)
          [] OTHER -> Num(temp)]

\* the target last, every overridden column present
DatasetA ==
    [columns |-> <<"Location", "Year", "Month", "Day", "Hour", "Day_of_Week",
                   "Weather", "Temp", "AQI_US">>,
     rows |-> <<Row9("Colombo City", 2023, 1, 5, 8, "Thursday", "Sunny", 30, 62),
                Row9("Malabe", 2023, 1, 5, 9, "Thursday", "Rainy", 27, 48),
                Row9("Colombo City", 2023, 1, 6, 8, "Friday", "Rainy", 28, 75)>>]

\* the target second, no Day_of_Week column
DatasetB ==
    [columns |-> <<"Location", "AQI_US", "Hour", "Weather", "Year", "Month",
                   "Day", "Temp">>,
     rows |-> <<Row8("Malabe", 110, 7, "Cloudy", 2022, 12, 31, 26),
                Row8("Colombo City", 155, 18, "Rainy", 2022, 12, 31, 29),
                Row8("Malabe", 95, 8, "Rainy", 2023, 1, 1, 25)>>]

DayClasses ==
    <<"Friday", "Monday", "Saturday", "Sunday", "Thursday", "Tuesday", "Wednesday">>

MonthClasses == <<"1", "10", "11", "12", "2", "3", "4", "5", "6", "7", "8", "9">>

\* every value the requests can produce is in the vocabulary
EncodersA ==
    [cols |-> <<"Location", "Day_of_Week", "Weather">>,
     classes |-> [c \in {"Location", "Day_of_Week", "Weather"} |->
        CASE c = "Location" -> <<"Colombo City", "Malabe">>
          [] c = "Day_of_Week" -> DayClasses
          [] OTHER -> <<"Cloudy", "Rainy", "Sunny">>]]

\* "Malabe" was not seen in training; a column the table lacks; a numeric
\* column encoded by its str()
EncodersB ==
    [cols |-> <<"Weather", "Station", "Location", "Month", "Day_of_Week">>,
     classes |-> [c \in {"Weather", "Station", "Location", "Month", "Day_of_Week"} |->
        CASE c = "Location" -> <<"Colombo City", "Kandy">>
          [] c = "Day_of_Week" -> DayClasses
          [] c = "Month" -> MonthClasses
          [] c = "Station" -> <<"Kandy">>
          [] OTHER -> <<"Cloudy", "Rainy", "Sunny">>]]

\* "Rainy" was not seen in training
EncodersC ==
    [cols |-> <<"Location", "Day_of_Week", "Weather">>,
     classes |-> [c \in {"Location", "Day_of_Week", "Weather"} |->
        CASE c = "Location" -> <<"Colombo City", "Malabe">>
          [] c = "Day_of_Week" -> DayClasses
          [] OTHER -> <<"Cloudy", "Sunny">>]]

PipeA == [bias |-> 0, step |-> 1]

PipeB == [bias |-> 4, step |-> 3]

\* <<df, pipe, encoders>> after the three loads of main.py:23-43; None is a
\* load that failed (or, for the encoders, a file that is not there)
Deployments ==
    {<<DatasetA, PipeA, EncodersA>>, <<DatasetA, PipeB, EncodersB>>,
     <<DatasetA, PipeA, EncodersC>>, <<DatasetB, PipeB, EncodersA>>,
     <<None, PipeA, EncodersA>>, <<DatasetA, None, EncodersB>>,
     <<DatasetB, PipeB, None>>, <<None, None, None>>}

----------------------------------------------------------------------------
(* Requests *)

Requests == 1..MaxRequests

\* two locations of the tables and one that is only in LOCATION_COORDS
Locations == {"Colombo City", "Malabe", "Nugegoda"}

\* the locations asked of /location-coords: one is not in LOCATION_COORDS
CoordQueries == {"Colombo City", "Nugegoda", "Atlantis"}

Hours == {0 - 1, 14, 24}

\* a date of the calendar and a string the format does not match
Dates ==
    {<<"2", "0", "2", "4", "-", "0", "2", "-", "2", "9">>,
     <<"1", "5", "/", "0", "3", "/", "2", "0", "2", "4">>}

NoRequest == [endpoint |-> "", location |-> "", date |-> << >>, hour |-> 0]

NoRow == [cols |-> << >>, val |-> << >>]

NoResponse == [status |-> 0, detail |-> "", body |-> None]

HTTPException(status, detail) == [status |-> status, detail |-> detail, body |-> None]

\* an exception no handler catches: the server answers 500
Unhandled == [status |-> 500, detail |-> "Internal Server Error", body |-> None]

Ok(body) == [status |-> 200, detail |-> "", body |-> body]

NoProbe == [aqi |-> 0, out |-> None]

----------------------------------------------------------------------------
(* LOCATION_COORDS (main.py:65-101), in ten-thousandths of a degree *)

LOCATION_COORDS ==
    <<<<"Colombo City", 69271, 798612>>,
      <<"Dehiwala-Mount Lavinia", 68347, 798661>>,
      <<"Moratuwa", 67730, 798816>>,
      <<"Maharagama", 68480, 799267>>,
      <<"Kotte (Sri Jayawardenepura Kotte)", 69022, 799090>>,
      <<"Kolonnawa", 69320, 798890>>,
      <<"Homagama", 68440, 800020>>,
      <<"Malabe", 69136, 799700>>,
      <<"Athurugiriya", 68746, 799987>>,
      <<"Battaramulla", 69003, 799181>>,
      <<"Rajagiriya", 69092, 798948>>,
      <<"Kottawa", 68410, 799650>>,
      <<"Nugegoda", 68697, 798880>>,
      <<"Kaduwela", 69346, 799846>>,
      <<"Pannipitiya", 68470, 799440>>,
      <<"Talawatugoda", 68775, 799324>>,
      <<"Kotikawatta", 69870, 799220>>,
      <<"Piliyandala", 68018, 799224>>,
      <<"Boralesgamuwa", 68405, 799017>>,
      <<"Kesbewa", 67980, 799400>>,
      <<"Wellampitiya", 69395, 798956>>,
      <<"Mulleriyawa", 69520, 799540>>,
      <<"Angoda", 69320, 799690>>,
      <<"Hanwella", 69070, 800820>>,
      <<"Avissawella", 69547, 802040>>,
      <<"Horana", 67146, 800623>>,
      <<"Padukka", 68450, 800900>>,
      <<"Mahara", 70000, 799400>>,
      <<"Kelaniya", 69553, 799220>>,
      <<"Peliyagoda", 69616, 798826>>,
      <<"Nawala", 68890, 798890>>,
      <<"Godagama", 68300, 800200>>,
      <<"Koswatta", 69140, 799050>>,
      <<"Madiwela", 68915, 799000>>,
      <<"Hokandara", 68900, 799600>>>>

DefaultCoords == <<69271, 798612>>

\* LOCATION_COORDS.get(location, (6.9271, 79.8612))
CoordsGet(location) ==
    IF \E k \in 1..Len(LOCATION_COORDS) : LOCATION_COORDS[k][1] = location
    THEN LET k == CHOOSE j \in 1..Len(LOCATION_COORDS) :
                      LOCATION_COORDS[j][1] = location
         IN <<LOCATION_COORDS[k][2], LOCATION_COORDS[k][3]>>
    ELSE DefaultCoords

----------------------------------------------------------------------------
(* The service *)

Init ==
    /\ \E dep \in Deployments :
          /\ df = dep[1]
          /\ pipe = dep[2]
          /\ encoders = dep[3]
    /\ pc = [i \in Requests |-> "idle"]
    /\ req = [i \in Requests |-> NoRequest]
    /\ base_row = [i \in Requests |-> NoRow]
    /\ X = [i \in Requests |-> NoRow]
    /\ todo = [i \in Requests |-> << >>]
    /\ touched = [i \in Requests |-> << >>]
    /\ resp = [i \in Requests |-> NoResponse]
    /\ probe = NoProbe

\* requests are numbered in the order they arrive
Arrives(i) == pc[i] = "idle" /\ \A j \in 1..(i - 1) : pc[j] # "idle"

Note(i, what) ==
    IF what \in Range(touched[i]) THEN touched[i] ELSE Append(touched[i], what)

\* a handler that answers in one step
Answer(i, r, answer) ==
    /\ req' = [req EXCEPT ![i] = r]
    /\ resp' = [resp EXCEPT ![i] = answer]
    /\ pc' = [pc EXCEPT ![i] = "done"]
    /\ UNCHANGED <<artifacts, base_row, X, todo, touched, probe>>

\* a step of predict that ends the request
Finish(i, answer) ==
    /\ resp' = [resp EXCEPT ![i] = answer]
    /\ pc' = [pc EXCEPT ![i] = "done"]

\* GET /
root(i) ==
    /\ Arrives(i)
    /\ Answer(i, [NoRequest EXCEPT !.endpoint = "/"],
              Ok([status |-> "ok", message |-> "Colombo AQI API running"]))

\* sorted(df["Location"].dropna().unique().tolist())
LocationList(d) ==
    LET S == {v \in Range(Column(d, "Location")) : v.t # "nan"}
        sorted == Sorted(S)
    IN [k \in 1..Len(sorted) |-> Str(sorted[k])]

\* GET /locations
get_locations(i) ==
    /\ Arrives(i)
    /\ Answer(i, [NoRequest EXCEPT !.endpoint = "/locations"],
              IF df = None THEN HTTPException(500, "Dataset not loaded.")
              ELSE Ok([locations |-> LocationList(df)]))

\* GET /location-coords/{location}
get_location_coords(i, location) ==
    /\ Arrives(i)
    /\ Answer(i, [NoRequest EXCEPT !.endpoint = "/location-coords",
                                   !.location = location],
              Ok([location |-> location,
                  lat |-> CoordsGet(location)[1],
                  lng |-> CoordsGet(location)[2]]))

\* only the dataset checked, as get_locations does
ArtifactCheck_DatasetOnly(d, p, e) ==
    IF d = None THEN HTTPException(500, "Dataset not loaded.") ELSE NoResponse

\* the answer of main.py:153-158 while an artifact is None, NoResponse
\* when all three are loaded
ArtifactCheck(d, p, e) ==
    IF d = None THEN HTTPException(500, "Dataset not loaded.")
    ELSE IF p = None THEN HTTPException(500, "Pipeline not loaded.")
    ELSE IF e = None THEN HTTPException(500, "Label encoders not loaded.")
    ELSE NoResponse

\* POST /predict, main.py:152-161: the artifact checks, then the hour check
predict_begin(i, location, date, hour) ==
    /\ Arrives(i)
    /\ req' = [req EXCEPT ![i] = [endpoint |-> "/predict", location |-> location,
                                  date |-> date, hour |-> hour]]
    /\ IF ArtifactCheck(df, pipe, encoders) # NoResponse
       THEN /\ Finish(i, ArtifactCheck(df, pipe, encoders))
            /\ touched' = [touched EXCEPT ![i] = <<"artifacts">>]
       ELSE /\ touched' = [touched EXCEPT ![i] = <<"artifacts", "hour">>]
            /\ IF ~HourInRange(hour)
               THEN Finish(i, HTTPException(400, "Hour must be 0-23."))
               ELSE pc' = [pc EXCEPT ![i] = "location"] /\ UNCHANGED resp
    /\ UNCHANGED <<artifacts, base_row, X, todo, probe>>

\* the baseline record fetched before the location is validated
predict_location_LookupFirst(i) ==
    /\ pc[i] = "location"
    /\ touched' = [touched EXCEPT ![i] = touched[i] \o <<"baseline", "locations">>]
    /\ IF ~LocationKnown(df, req[i].location)
       THEN Finish(i, HTTPException(400, "Unknown location."))
       ELSE pc' = [pc EXCEPT ![i] = "baseline"] /\ UNCHANGED resp
    /\ UNCHANGED <<artifacts, req, base_row, X, todo, probe>>

\* main.py:162-163
predict_location(i) ==
    /\ pc[i] = "location"
    /\ touched' = [touched EXCEPT ![i] = Note(i, "locations")]
    /\ IF ~LocationKnown(df, req[i].location)
       THEN Finish(i, HTTPException(400, "Unknown location."))
       ELSE pc' = [pc EXCEPT ![i] = "baseline"] /\ UNCHANGED resp
    /\ UNCHANGED <<artifacts, req, base_row, X, todo, probe>>

\* the overrides written through to the table's record (a view of the
\* frame instead of a copy)
predict_base_row_InPlace(i) ==
    /\ pc[i] = "baseline"
    /\ touched' = [touched EXCEPT ![i] = Note(i, "baseline")]
    /\ IF NoRecord(df, req[i].location) \/ ~DateParses(req[i].date)
       THEN Finish(i, Unhandled) /\ UNCHANGED <<base_row, df>>
       ELSE LET k == CHOOSE j \in 1..Len(df.rows) :
                         /\ df.rows[j]["Location"] = Txt(req[i].location)
                         /\ \A m \in 1..(j - 1) :
                                df.rows[m]["Location"] # Txt(req[i].location)
                new == Override(FirstRecord(df, req[i].location), req[i])
            IN /\ base_row' = [base_row EXCEPT ![i] = new]
               /\ df' = [df EXCEPT !.rows[k] =
                            [c \in DOMAIN df.rows[k] |->
                                IF c \in Range(new.cols) THEN new.val[c]
                                ELSE df.rows[k][c]]]
               /\ pc' = [pc EXCEPT ![i] = "reindex"]
               /\ UNCHANGED resp
    /\ UNCHANGED <<pipe, encoders, req, X, todo, probe>>

\* main.py:166-178: the baseline record, then the overrides on the local
\* dict; neither .iloc[0]'s IndexError nor strptime's ValueError is caught
predict_base_row(i) ==
    /\ pc[i] = "baseline"
    /\ touched' = [touched EXCEPT ![i] = Note(i, "baseline")]
    /\ IF NoRecord(df, req[i].location)
       THEN Finish(i, Unhandled) /\ UNCHANGED base_row
       ELSE IF ~DateParses(req[i].date)
       THEN /\ base_row' = [base_row EXCEPT ![i] = FirstRecord(df, req[i].location)]
            /\ Finish(i, Unhandled)
       ELSE /\ base_row' = [base_row EXCEPT ![i] =
                               Override(FirstRecord(df, req[i].location), req[i])]
            /\ pc' = [pc EXCEPT ![i] = "reindex"]
            /\ UNCHANGED resp
    /\ UNCHANGED <<artifacts, req, X, todo, probe>>

\* main.py:181-185
predict_reindex(i) ==
    /\ pc[i] = "reindex"
    /\ X' = [X EXCEPT ![i] = Reindex(base_row[i], FeatureCols(df))]
    /\ todo' = [todo EXCEPT ![i] = encoders.cols]
    /\ touched' = [touched EXCEPT ![i] = Note(i, "encoders")]
    /\ pc' = [pc EXCEPT ![i] = "encode"]
    /\ UNCHANGED <<artifacts, req, base_row, resp, probe>>

\* one turn of the loop of main.py:185-195; transform's ValueError is not
\* caught
predict_encode(i) ==
    /\ pc[i] = "encode"
    /\ todo[i] # << >>
    /\ LET col == Head(todo[i])
           le == encoders.classes[col]
       IN IF col \notin Range(X[i].cols)
          THEN UNCHANGED <<X, pc, resp>>
          ELSE IF TransformRaises(le, EncodeInput(df, le, X[i], col))
          THEN Finish(i, Unhandled) /\ UNCHANGED X
          ELSE /\ X' = [X EXCEPT ![i] = EncodeColumn(df, le, X[i], col)]
               /\ UNCHANGED <<pc, resp>>
    /\ todo' = [todo EXCEPT ![i] = Tail(todo[i])]
    /\ UNCHANGED <<artifacts, req, base_row, touched, probe>>

\* main.py:198-205; an exception of pipe.predict is not caught
predict_infer(i) ==
    /\ pc[i] = "encode"
    /\ todo[i] = << >>
    /\ touched' = [touched EXCEPT ![i] = Note(i, "model")]
    /\ IF PredictRaises(X[i])
       THEN Finish(i, Unhandled)
       ELSE Finish(i, Ok(PredictBody(req[i].location, Predict(pipe, X[i]))))
    /\ UNCHANGED <<artifacts, req, base_row, X, todo, probe>>

Next ==
    \E i \in Requests :
        \/ root(i)
        \/ get_locations(i)
        \/ \E location \in CoordQueries : get_location_coords(i, location)
        \/ \E location \in Locations, date \in Dates, hour \in Hours :
               predict_begin(i, location, date, hour)
        \/ predict_location(i)
        \/ predict_base_row(i)
        \/ predict_reindex(i)
        \/ predict_encode(i)
        \/ predict_infer(i)

Spec == Init /\ [][Next]_vars

----------------------------------------------------------------------------
(* The classifier on its own: every AQI value of AqiInputs is classified   *)
(* and put in a response as main.py:200-205 does                           *)

Thresholds == {50, 100, 150, 200, 300}

\* a float is x.xx5 exactly only when it is a multiple of 0.125
Representable(a) == a % 10 # 5 \/ a % 125 = 0

AqiInputs ==
    {a \in UNION {(t * Milli - Window)..(t * Milli + Window) : t \in Thresholds}
             \cup {k * Milli : k \in (0 - 3)..303}
             \cup {0 - Milli * Milli, Milli * Milli, 50 * Milli + 125,
                   100 * Milli + 375} :
        Representable(a)}

InitClassifier ==
    /\ df = None /\ pipe = None /\ encoders = None
    /\ pc = [i \in Requests |-> "idle"]
    /\ req = [i \in Requests |-> NoRequest]
    /\ base_row = [i \in Requests |-> NoRow]
    /\ X = [i \in Requests |-> NoRow]
    /\ todo = [i \in Requests |-> << >>]
    /\ touched = [i \in Requests |-> << >>]
    /\ resp = [i \in Requests |-> NoResponse]
    /\ \E a \in AqiInputs : probe = [aqi |-> a, out |-> None]

Classify ==
    /\ probe.out = None
    /\ probe' = [probe EXCEPT !.out = PredictBody("Colombo City", probe.aqi)]
    /\ UNCHANGED <<artifacts, pc, req, base_row, X, todo, touched, resp>>

NextClassifier == Classify

SpecClassifier == InitClassifier /\ [][NextClassifier]_vars

----------------------------------------------------------------------------
(* Properties *)

Done(i) == pc[i] = "done"

IsPredict(i) == req[i].endpoint = "/predict"

Ready == df # None /\ pipe # None /\ encoders # None

HourOutside(i) == req[i].hour < 0 \/ req[i].hour > 23

InTable(location) ==
    \E k \in 1..Len(df.rows) : df.rows[k]["Location"] = Txt(location)

WellFormed(date) == Len(date) = 10 /\ date[5] = "-" /\ date[8] = "-"

\* C1, as stated: every /predict request whose hour is outside [0,23] is
\* answered 400, whatever its location and date.
C1_BadHourIs400 ==
    \A i \in Requests :
        Done(i) /\ IsPredict(i) /\ HourOutside(i) => resp[i].status = 400

\* C1, amended: with the three artifacts loaded, every /predict request
\* whose hour is outside [0,23] is answered 400 ("Hour must be 0-23."),
\* whatever its location and date; with an artifact missing it is answered 500.
C1_BadHourIs400WhenReady ==
    \A i \in Requests :
        Done(i) /\ IsPredict(i) /\ HourOutside(i) =>
            IF Ready
            THEN resp[i] = HTTPException(400, "Hour must be 0-23.")
            ELSE resp[i].status = 500

C1_Witness ==
    \E i \in Requests :
        /\ Ready /\ Done(i) /\ IsPredict(i)
        /\ req[i].hour < 0
        /\ ~InTable(req[i].location)
        /\ ~WellFormed(req[i].date)
        /\ resp[i].status = 400

\* C2, as stated: every /predict request whose location is not in the
\* table's Location column is answered 400, and no prediction is made.
C2_UnknownLocationIs400 ==
    \A i \in Requests :
        Done(i) /\ IsPredict(i) /\ df # None /\ ~InTable(req[i].location) =>
            resp[i].status = 400 /\ "model" \notin Range(touched[i])

\* C2, amended: with the three artifacts loaded, every /predict request
\* whose location is not in the table's Location column is answered 400 and
\* the model is not invoked; with an artifact missing it is answered 500.
C2_UnknownLocationIs400WhenReady ==
    \A i \in Requests :
        Done(i) /\ IsPredict(i) /\ df # None /\ ~InTable(req[i].location) =>
            /\ "model" \notin Range(touched[i])
            /\ resp[i].body = None
            /\ resp[i].status = IF Ready THEN 400 ELSE 500

C2_Witness ==
    \E i \in Requests :
        /\ Ready /\ Done(i) /\ IsPredict(i)
        /\ ~InTable(req[i].location)
        /\ ~HourOutside(i)
        /\ resp[i] = HTTPException(400, "Unknown location.")

\* C3, as stated: with an artifact missing, every request on every endpoint
\* is answered 500.
C3_NotReadyAll500 ==
    \A i \in Requests : Done(i) /\ ~Ready => resp[i].status = 500

\* C3, amended: with an artifact missing, every /predict request is
\* answered 500; /locations is answered 500 when the dataset is the missing
\* one and 200 otherwise; / and /location-coords are answered 200.
C3_NotReadyByEndpoint ==
    \A i \in Requests :
        Done(i) /\ ~Ready =>
            resp[i].status =
                CASE req[i].endpoint = "/predict" -> 500
                  [] req[i].endpoint = "/locations" ->
                        (IF df = None THEN 500 ELSE 200)
                  [] OTHER -> 200

C3_Witness ==
    \E i, j \in Requests :
        /\ df # None /\ pipe = None
        /\ Done(i) /\ IsPredict(i) /\ resp[i].status = 500
        /\ ~HourOutside(i)
        /\ Done(j) /\ req[j].endpoint = "/locations" /\ resp[j].status = 200

Categories ==
    {"Good", "Moderate", "Unhealthy for Sensitive Groups", "Unhealthy",
     "Very Unhealthy", "Hazardous"}

\* the categories the table of thresholds allows for the value a
TableCategories(a) ==
    {c \in Categories :
        \/ c = "Good" /\ a <= 50 * Milli
        \/ c = "Moderate" /\ 50 * Milli < a /\ a <= 100 * Milli
        \/ c = "Unhealthy for Sensitive Groups"
              /\ 100 * Milli < a /\ a <= 150 * Milli
        \/ c = "Unhealthy" /\ 150 * Milli < a /\ a <= 200 * Milli
        \/ c = "Very Unhealthy" /\ 200 * Milli < a /\ a <= 300 * Milli
        \/ c = "Hazardous" /\ 300 * Milli < a}

\* C4: aqi_category gives every value the one category whose range, with
\* inclusive upper bounds 50, 100, 150, 200, 300, holds the value.
C4_CategoryTable ==
    probe.out # None => TableCategories(probe.aqi) = {probe.out.category}

C4_Witness ==
    /\ probe.out # None
    /\ probe.aqi = 50 * Milli
    /\ probe.out.category = "Good"

\* C5: in a successful /predict response, category and advice are the ones
\* the thresholds give to the predicted_aqi of that response (the value
\* rounded to 2 places).
C5_CategoryOfReturnedValue ==
    \A i \in Requests :
        Done(i) /\ IsPredict(i) /\ resp[i].status = 200 =>
            LET returned == resp[i].body.predicted_aqi * 10 IN
            /\ resp[i].body.category \in TableCategories(returned)
            /\ resp[i].body.advice = advice_for(returned)

Built(i) == IsPredict(i) /\ (pc[i] = "encode" \/ (Done(i) /\ X[i] # NoRow))

\* the place of column c in the table
Place(c) == IndexOf(df.columns, c)

\* C6: the feature row of every valid query has the table's columns less
\* AQI_US, in the table's order and number, before and after the encoding.
C6_FeatureSchema ==
    \A i \in Requests :
        Built(i) =>
            LET cols == X[i].cols
                schema == Range(df.columns) \ {TargetCol}
            IN /\ TargetCol \notin Range(cols)
               /\ Range(cols) = schema
               /\ Len(cols) = Cardinality(schema)
               /\ \A a \in 1..(Len(cols) - 1) :
                      Place(cols[a]) < Place(cols[a + 1])
               /\ DOMAIN X[i].val = schema

C6_Witness ==
    \E i \in Requests :
        /\ Built(i) /\ Done(i) /\ resp[i].status = 200
        /\ "Day_of_Week" \notin Range(df.columns)
        /\ df.columns[2] = TargetCol
        /\ X[i].val["Location"].t = "num"

\* the request ended inside the encoding loop
FailedEncoding(i) ==
    /\ Done(i) /\ IsPredict(i)
    /\ "encoders" \in Range(touched[i])
    /\ "model" \notin Range(touched[i])

\* C7: a value outside its column's vocabulary never makes /predict fail,
\* for every dataset and encoder set, also when the mode is not in the
\* vocabulary.
C7_UnseenNeverFails == \A i \in Requests : ~FailedEncoding(i)

\* C8: with the artifacts loaded, every /predict request with hour in
\* [0,23] and a known location gets a 200 with a numeric predicted_aqi and a
\* non-empty category, whatever its date string.
C8_ValidQuerySucceeds ==
    \A i \in Requests :
        Done(i) /\ IsPredict(i) /\ Ready /\ ~HourOutside(i)
                /\ InTable(req[i].location) =>
            /\ resp[i].status = 200
            /\ resp[i].body.predicted_aqi \in Int
            /\ resp[i].body.category # ""

Locals(i) == <<base_row[i], X[i], todo[i]>>

Thread(i) == <<pc[i], req[i], base_row[i], X[i], todo[i], touched[i], resp[i]>>

\* C9: no step of any request changes the dataset, the encoders or the
\* model; a step that changes one request's row changes nothing of another
\* request; and two finished /predict requests with the same inputs have
\* the same response.
C9_Deterministic ==
    /\ [][/\ artifacts' = artifacts
          /\ \A i, j \in Requests :
                i # j /\ Locals(i)' # Locals(i) => Thread(j)' = Thread(j)]_vars
    /\ [](\A i, j \in Requests :
             Done(i) /\ Done(j) /\ IsPredict(i) /\ req[i] = req[j] =>
                 resp[i] = resp[j])

C9_Witness ==
    \E i, j \in Requests :
        /\ i # j /\ Done(i) /\ Done(j) /\ IsPredict(i)
        /\ req[i] = req[j]
        /\ resp[i].status = 200
        /\ resp[i].body.predicted_aqi = resp[j].body.predicted_aqi

\* C10: a /predict request rejected for its inputs (400) has read neither
\* the baseline record nor the encoders nor the model, and the hour is
\* checked before the location.
C10_ValidationFirst ==
    \A i \in Requests :
        Done(i) /\ IsPredict(i) /\ resp[i].status = 400 =>
            /\ \/ touched[i] = <<"artifacts", "hour">>
               \/ touched[i] = <<"artifacts", "hour", "locations">>
            /\ base_row[i] = NoRow /\ X[i] = NoRow
            /\ HourOutside(i) => resp[i].detail = "Hour must be 0-23."

C10_Witness ==
    \E i \in Requests :
        /\ Done(i) /\ IsPredict(i)
        /\ resp[i] = HTTPException(400, "Unknown location.")
        /\ touched[i] = <<"artifacts", "hour", "locations">>

====
